---- MODULE Spec2Model ----
(***************************************************************************)
(* A model of ezra's static analysis pipeline:                             *)
(*   - the Pattern Scan Engine   (functions/runthegoods.js)                *)
(*   - the Signal Triage Filter  (functions/extractsignal.js)              *)
(*   - the request-surface pass  (functions/extractrequests.js)            *)
(*   - the persistence of the output artifacts (fs.writeFileSync)          *)
(* Strings are sequences of one-character strings; positions are 0-based   *)
(* as in JavaScript.                                                       *)
(***************************************************************************)
EXTENDS Integers, Sequences, FiniteSets, TLC

VARIABLES
  \* ---- Pattern Scan Engine
  regexDir,        \* what each module of functions/regex/ exports (input)
  jsFiles,         \* the text of each downloaded file, in directory order (input)
  regexes,         \* the detectors loadRegexes kept
  lastIndex,       \* the match cursor of each exported RegExp object
  spc,             \* position of runthegoods
  fileIdx,         \* index of the file being scanned
  reIdx,           \* index (in regexes) of the detector being applied
  findings,        \* raw matches of the current (file, detector) pair
  machineResults,  \* the ScanRecords of this run
  humanLines,      \* the line-oriented rendering of this run
  rerun,           \* whether this is the second run of the engine over the corpus
  prevResults,     \* the ScanRecords the previous run produced
  \* ---- Signal Triage Filter
  data,            \* the parsed content of goods_machine.json (input)
  clock,           \* the time, in ticks of 1/TicksPerMs millisecond
  signalFiles,     \* the signal reports on disk: file name -> content
  outFiles,        \* the outFile each call of extractSignal returned, in call order
  \* ---- fs.writeFileSync of one artifact
  artifact,        \* which report is being written
  newContent,      \* the content assembled in memory
  oldContent,      \* what the path held before the write
  onDisk,          \* what the path holds now
  wpc,             \* position of the write
  \* ---- extractRequests
  parses,          \* for each file of the corpus, whether acorn parses its text (input)
  rpc,             \* position of extractRequests
  rFile,           \* the file the loop of line 103 is at
  scope,           \* the scope map of the file being walked
  heap,            \* the `appends` arrays created so far
  reqFindings,     \* the findings array
  node,            \* the node the walk has just visited
  visited,         \* nodes visited so far in this run
  surface,         \* the content of js_request_surface.json
  walked,          \* the nodes visited so far in the file being walked, in walk order
  \* ---- filterExistingJs
  jsUrls,          \* the URLs queued by lines 71-78, in queue order (input)
  queue,           \* the queue the workers take from
  results,         \* the results array
  processed,       \* the processed counter
  total,           \* queue.length at line 81
  workers,         \* for each worker task, where it is and the URL it probes
  probes,          \* the URLs checkJsUrl was called with, in call order
  outcomes,        \* how each probe ended, in order of completion
  fpc              \* position of filterExistingJs

scanVars == <<regexDir, jsFiles, regexes, lastIndex, spc, fileIdx, reIdx,
              findings, machineResults, humanLines, rerun, prevResults>>

triageVars == <<data, clock, signalFiles, outFiles>>
writeVars == <<artifact, newContent, oldContent, onDisk, wpc>>

reqVars == <<parses, rpc, rFile, scope, heap, reqFindings, node, visited, surface,
            walked>>

poolVars == <<jsUrls, queue, results, processed, total, workers, probes, outcomes,
             fpc>>

vars == <<scanVars, triageVars, writeVars, reqVars, poolVars>>

notScan == <<triageVars, writeVars, reqVars, poolVars>>
notTriage == <<scanVars, writeVars, reqVars, poolVars>>
notWrite == <<scanVars, triageVars, reqVars, poolVars>>
notReq == <<scanVars, triageVars, writeVars, poolVars>>
notPool == <<scanVars, triageVars, writeVars, reqVars>>

(***************************************************************************)
(* Bounds of the model                                                     *)
(***************************************************************************)
MaxLen == 3        \* longest file text
ExtraIter == 2     \* loop iterations explored beyond the longest terminating loop

\* The context window is 100 characters each side in the program; the model
\* scales it to the size of its texts so that windows clip inside a file.
ContextRadius == 1

\* The names of the modules of the regex directory and of the downloaded files.
DetectorNames == {1, 2}
FileNames == {1, 2}

Alphabet == {"a", "\n"}
Texts == UNION {[1..n -> Alphabet] : n \in 0..MaxLen}

Min(S) == CHOOSE x \in S : \A y \in S : x <= y
Last(s) == s[Len(s)]

(***************************************************************************)
(* Regular expressions.  A pattern is /a/, /a*/ or /^a:|a/; the second can *)
(* match the empty string.                                                 *)
(***************************************************************************)
RECURSIVE RunLen(_, _, _)
\* number of consecutive c in text from 0-based position i
RunLen(text, i, c) ==
  IF i < Len(text) /\ text[i + 1] = c THEN 1 + RunLen(text, i + 1, c) ELSE 0

\* Length of the match of pat anchored at position i, or -1.
MatchLen(pat, text, i) ==
  CASE pat.kind = "one"  -> IF RunLen(text, i, pat.c) >= 1 THEN 1 ELSE -1
    [] pat.kind = "star" -> RunLen(text, i, pat.c)
    [] pat.kind = "head" ->
         IF i = 0 /\ Len(text) >= 2 /\ text[1] = pat.c /\ text[2] = ":" THEN 2
         ELSE IF RunLen(text, i, pat.c) >= 1 THEN 1 ELSE -1

\* RegExp.prototype.exec: the result (<<>> for null) and the cursor it leaves.
exec(re, content, cursor) ==
  LET start == IF re.global THEN cursor ELSE 0
      hits  == IF start > Len(content) THEN {}
               ELSE {j \in start..Len(content) : MatchLen(re.pat, content, j) >= 0}
  IN IF hits = {}
     THEN [match |-> <<>>, lastIndex |-> IF re.global THEN 0 ELSE cursor]
     ELSE LET idx == Min(hits)
              n   == MatchLen(re.pat, content, idx)
          IN [match |-> <<[index |-> idx, text |-> SubSeq(content, idx + 1, idx + n)]>>,
              lastIndex |-> IF re.global THEN idx + n ELSE cursor]

(***************************************************************************)
(* Detector loading                                                        *)
(***************************************************************************)
RegExpExport(k, g, li) ==
  [type |-> "RegExp", pat |-> [kind |-> k, c |-> "a"], global |-> g, lastIndex |-> li]
NoRegExp == [type |-> "other", pat |-> [kind |-> "none", c |-> "a"],
             global |-> FALSE, lastIndex |-> 0]

\* What a module of the regex directory may export.
Exports == {RegExpExport("one", TRUE, 0), RegExpExport("one", TRUE, 1),
            RegExpExport("star", TRUE, 0), RegExpExport("one", FALSE, 0), NoRegExp}

\* The test a module passes to be kept without the /g check.
AcceptsAnyRegExp(m) == m.type = "RegExp"

\* The test of loadRegexes: a RegExp whose flags include g.
Accepts(m) == m.type = "RegExp" /\ m.global

RECURSIVE loadFrom(_, _)
loadFrom(dir, i) ==
  IF i > Cardinality(DetectorNames) THEN <<>>
  ELSE (IF Accepts(dir[i])
        THEN <<[name |-> i, pat |-> dir[i].pat, global |-> dir[i].global]>>
        ELSE <<>>) \o loadFrom(dir, i + 1)

loadRegexes(dir) == loadFrom(dir, 1)

(***************************************************************************)
(* Context capture and deduplication                                       *)
(***************************************************************************)
IsSpace(c) == c \in {" ", "\n"}

RECURSIVE Collapse(_)
\* .replace(/\s+/g, ' ')
Collapse(s) ==
  IF s = <<>> THEN <<>>
  ELSE IF IsSpace(Head(s))
       THEN IF Len(s) > 1 /\ IsSpace(s[2]) THEN Collapse(Tail(s))
            ELSE <<" ">> \o Collapse(Tail(s))
       ELSE <<Head(s)>> \o Collapse(Tail(s))

RECURSIVE TrimStart(_)
TrimStart(s) == IF s # <<>> /\ IsSpace(Head(s)) THEN TrimStart(Tail(s)) ELSE s

RECURSIVE TrimEnd(_)
TrimEnd(s) ==
  IF s # <<>> /\ IsSpace(Last(s)) THEN TrimEnd(SubSeq(s, 1, Len(s) - 1)) ELSE s

Trim(s) == TrimEnd(TrimStart(s))

\* content.slice(start, end) with 0-based start and exclusive end
Slice(s, start, end) == SubSeq(s, start + 1, end)

Max2(a, b) == IF a >= b THEN a ELSE b
Min2(a, b) == IF a <= b THEN a ELSE b

Context(content, index, matchedText) ==
  LET start == Max2(0, index - ContextRadius)
      end   == Min2(Len(content), index + Len(matchedText) + ContextRadius)
  IN Trim(Collapse(Slice(content, start, end)))

\* a key that forgets the context
KeyMatchOnly(f) == f.match

\* the key `${f.match}::${f.context}`
Key(f) == f.match \o <<":", ":">> \o f.context

RECURSIVE dedupe(_, _, _)
dedupe(fs, i, seen) ==
  IF i > Len(fs) THEN <<>>
  ELSE IF Key(fs[i]) \in seen THEN dedupe(fs, i + 1, seen)
       ELSE <<fs[i]>> \o dedupe(fs, i + 1, seen \cup {Key(fs[i])})

uniqueFindings(fs) == dedupe(fs, 1, {})

RECURSIVE findingLines(_, _)
findingLines(u, i) ==
  IF i > Len(u) THEN <<>>
  ELSE <<<<"- Match: ", u[i].match>>, <<"  Context: ", u[i].context>>>>
       \o findingLines(u, i + 1)

recordLines(file, name, u) ==
  <<<<"File: ", file>>, <<"Regex: ", name>>, <<"Findings:">>>>
  \o findingLines(u, 1) \o <<<<"">>>>

(***************************************************************************)
(* The parts of the pipeline a specification leaves out stay as they are.  *)
(***************************************************************************)
ScanIdle ==
  /\ regexDir = <<>> /\ jsFiles = <<>> /\ regexes = <<>> /\ lastIndex = <<>>
  /\ spc = "idle" /\ fileIdx = 0 /\ reIdx = 0 /\ findings = <<>>
  /\ machineResults = <<>> /\ humanLines = <<>> /\ rerun = FALSE /\ prevResults = <<>>

TriageIdle ==
  data = <<>> /\ clock = 0 /\ signalFiles = <<>> /\ outFiles = <<>>

WriteIdle ==
  /\ artifact = "none" /\ newContent = <<>> /\ oldContent = <<>>
  /\ onDisk = <<>> /\ wpc = "idle"

ReqIdle ==
  /\ parses = <<>> /\ rpc = "idle" /\ rFile = 0 /\ scope = <<>> /\ heap = <<>>
  /\ reqFindings = <<>> /\ node = <<>> /\ visited = 0 /\ surface = <<>>
  /\ walked = <<>>

PoolIdle ==
  /\ jsUrls = <<>> /\ queue = <<>> /\ results = <<>> /\ processed = 0
  /\ total = 0 /\ workers = <<>> /\ probes = <<>> /\ outcomes = <<>>
  /\ fpc = "idle"

(***************************************************************************)
(* runthegoods                                                             *)
(***************************************************************************)
InitScan ==
  /\ regexDir \in [DetectorNames -> Exports]
  /\ jsFiles \in [FileNames -> Texts]
  /\ regexes = <<>>
  /\ lastIndex = [i \in DetectorNames |-> regexDir[i].lastIndex]
  /\ spc = "start"
  /\ fileIdx = 1
  /\ reIdx = 1
  /\ findings = <<>>
  /\ machineResults = <<>>
  /\ humanLines = <<>>
  /\ rerun = FALSE
  /\ prevResults = <<>>
  /\ TriageIdle
  /\ WriteIdle
  /\ ReqIdle
  /\ PoolIdle

\* lines 94-124: load the detectors, list the files, empty the containers
StartRun ==
  /\ UNCHANGED notScan
  /\ spc = "start"
  /\ regexes' = loadRegexes(regexDir)
  /\ machineResults' = <<>>
  /\ humanLines' = <<>>
  /\ fileIdx' = 1
  /\ reIdx' = 1
  /\ findings' = <<>>
  /\ spc' = "pair"
  /\ UNCHANGED <<regexDir, jsFiles, lastIndex, rerun, prevResults>>

\* the cursor ResetCursor leaves when line 135 is missing
CursorKept(cur) == cur

\* line 135: regex.lastIndex = 0
CursorReset(cur) == 0

\* lines 131-138: take the next (file, detector) pair, or leave the loops
BeginPair ==
  /\ UNCHANGED notScan
  /\ spc = "pair"
  /\ IF fileIdx > Cardinality(FileNames)
     THEN /\ spc' = "write"
          /\ UNCHANGED <<fileIdx, reIdx, lastIndex, findings>>
     ELSE IF reIdx > Len(regexes)
     THEN /\ fileIdx' = fileIdx + 1
          /\ reIdx' = 1
          /\ UNCHANGED <<spc, lastIndex, findings>>
     ELSE /\ lastIndex' = [lastIndex EXCEPT ![regexes[reIdx].name] = CursorReset(@)]
          /\ findings' = <<>>
          /\ spc' = "exec"
          /\ UNCHANGED <<fileIdx, reIdx>>
  /\ UNCHANGED <<regexDir, jsFiles, regexes, machineResults, humanLines, rerun, prevResults>>

Current == exec(regexes[reIdx], jsFiles[fileIdx], lastIndex[regexes[reIdx].name])

\* lines 149-166: one iteration of the exec loop that found a match
ExecMatch ==
  /\ UNCHANGED notScan
  /\ spc = "exec"
  /\ Current.match # <<>>
  /\ Len(findings) < MaxLen + ExtraIter
  /\ LET m == Current.match[1]
     IN findings' = Append(findings,
          [match |-> m.text, context |-> Context(jsFiles[fileIdx], m.index, m.text)])
  /\ lastIndex' = [lastIndex EXCEPT ![regexes[reIdx].name] = Current.lastIndex]
  /\ UNCHANGED <<regexDir, jsFiles, regexes, spc, fileIdx, reIdx, machineResults,
                 humanLines, rerun, prevResults>>

\* lines 149, 168-210: exec returns null; de-dupe and record the pair
ExecNull ==
  /\ UNCHANGED notScan
  /\ spc = "exec"
  /\ Current.match = <<>>
  /\ lastIndex' = [lastIndex EXCEPT ![regexes[reIdx].name] = Current.lastIndex]
  /\ IF findings = <<>>
     THEN UNCHANGED <<machineResults, humanLines>>
     ELSE LET u == uniqueFindings(findings)
          IN /\ machineResults' = Append(machineResults,
                  [file |-> fileIdx, regex |-> regexes[reIdx].name, findings |-> u])
             /\ humanLines' = humanLines \o recordLines(fileIdx, regexes[reIdx].name, u)
  /\ reIdx' = reIdx + 1
  /\ spc' = "pair"
  /\ UNCHANGED <<regexDir, jsFiles, regexes, fileIdx, findings, rerun, prevResults>>

\* lines 218-225: write both reports
WriteReports ==
  /\ UNCHANGED notScan
  /\ spc = "write"
  /\ spc' = "done"
  /\ UNCHANGED <<regexDir, jsFiles, regexes, lastIndex, fileIdx, reIdx, findings,
                 machineResults, humanLines, rerun, prevResults>>

\* the engine is run again on the unchanged corpus and detector set, in the
\* same process (the cached RegExp objects keep their cursors) or a new one
Rerun ==
  /\ UNCHANGED notScan
  /\ spc = "done"
  /\ ~rerun
  /\ rerun' = TRUE
  /\ prevResults' = machineResults
  /\ \E sameProcess \in BOOLEAN :
       lastIndex' = IF sameProcess THEN lastIndex
                    ELSE [i \in DetectorNames |-> regexDir[i].lastIndex]
  /\ spc' = "start"
  /\ UNCHANGED <<regexDir, jsFiles, regexes, fileIdx, reIdx, findings,
                 machineResults, humanLines>>

NextScan == StartRun \/ BeginPair \/ ExecMatch \/ ExecNull \/ WriteReports \/ Rerun

SpecScan == InitScan /\ [][NextScan]_vars

(***************************************************************************)
(* Claims about the Pattern Scan Engine                                    *)
(***************************************************************************)
Cursor == lastIndex[regexes[reIdx].name]

\* C1: the match loop of a (file, detector) pair terminates because each
\* search starts strictly after the previous one: every iteration of the loop
\* that finds a match leaves the detector's cursor strictly beyond the
\* position that search started from, also when the match has length zero.
C1_EachSearchAdvances ==
  [][(spc = "exec" /\ spc' = "exec") =>
       lastIndex'[regexes[reIdx].name] > lastIndex[regexes[reIdx].name]]_vars

SameFinding(f, g) == f.match = g.match /\ f.context = g.context

\* the record of the pair whose loop has just ended
FreshRecord == spc # "exec" /\ findings # <<>> /\ machineResults # <<>>

\* C2: when a pair has been recorded, every raw match of the pair has exactly
\* one surviving entry with its matched text and normalized context, every
\* surviving entry is a raw match, and the survivors are in the order of
\* their first occurrence among the raw matches.
C2_DedupKeepsOneInOrder ==
  FreshRecord =>
    LET u == Last(machineResults).findings
        first(k) == Min({i \in 1..Len(findings) : SameFinding(findings[i], u[k])})
    IN /\ \A i \in 1..Len(findings) :
            Cardinality({k \in 1..Len(u) : SameFinding(u[k], findings[i])}) = 1
       /\ \A k \in 1..Len(u) : \E i \in 1..Len(findings) : SameFinding(findings[i], u[k])
       /\ \A k, l \in 1..Len(u) : k < l => first(k) < first(l)

\* a pair whose raw matches held a repeated (text, context) has been recorded
C2_Witness ==
  /\ FreshRecord
  /\ Len(Last(machineResults).findings) >= 2
  /\ \E i, j \in 1..Len(findings) : i < j /\ SameFinding(findings[i], findings[j])

Repeatable(m) == m.type = "RegExp" /\ m.global

\* C3: a module that exports no RegExp, or one without the g flag, is never
\* loaded, applied or reported, and every other module of the directory is
\* loaded (in directory order) all the same.
C3_RejectedDetectorExcluded ==
  spc # "start" =>
    /\ \A k \in 1..Len(regexes) : Repeatable(regexDir[regexes[k].name])
    /\ \A k \in 1..Len(machineResults) : Repeatable(regexDir[machineResults[k].regex])
    /\ spc = "exec" => Repeatable(regexDir[regexes[reIdx].name])
    /\ \A n \in DetectorNames :
         Repeatable(regexDir[n]) => \E k \in 1..Len(regexes) : regexes[k].name = n
    /\ \A k, l \in 1..Len(regexes) : k < l => regexes[k].name < regexes[l].name

\* a run ended with a record of the detector loaded next to a rejected one
C3_Witness ==
  /\ spc = "done"
  /\ \E n \in DetectorNames : ~Repeatable(regexDir[n])
  /\ \E k \in 1..Len(machineResults) : Repeatable(regexDir[machineResults[k].regex])

\* the findings recorded for file f under detector n, in report order
RecordedFor(records, f, n) ==
  LET idx == {k \in 1..Len(records) : records[k].file = f /\ records[k].regex = n}
  IN IF idx = {} THEN <<>> ELSE records[Min(idx)].findings

\* C4: the cursor is at 0 when the scan of a pair begins; once a run is done,
\* two files with the same text have the same findings under the same
\* detector; and a second run over the unchanged corpus reports what the
\* first did.
C4_RecordDependsOnTextAndPattern ==
  /\ (spc = "exec" /\ findings = <<>>) => Cursor = 0
  /\ spc = "done" =>
       \A n \in DetectorNames : \A f, g \in FileNames :
         jsFiles[f] = jsFiles[g] =>
           RecordedFor(machineResults, f, n) = RecordedFor(machineResults, g, n)
  /\ (spc = "done" /\ rerun) => machineResults = prevResults

\* a second run is done over a corpus of two files with the same text, scanned
\* with a detector whose cursor was not at 0 when it was loaded
C4_Witness ==
  /\ spc = "done" /\ rerun
  /\ jsFiles[1] = jsFiles[2]
  /\ \E k \in 1..Len(machineResults) :
       /\ regexDir[machineResults[k].regex].lastIndex > 0
       /\ machineResults[k].file = 2

(***************************************************************************)
(* extractSignal                                                           *)
(***************************************************************************)
MaxMatches == 3      \* matches in the machine report
MaxTriageRuns == 2   \* calls of extractSignal
TicksPerMs == 2      \* ticks of the model's time in one millisecond
MaxTicks == 4        \* how long the model's time runs

Str(s) == [type |-> "string", value |-> s]
Num(n) == [type |-> "number", value |-> n]

\* the match values of the reports the model reads
ReportMatches ==
  {Str(<<"U", "s", "e", "r">>), Str(<<"1", "2", "3", "4">>), Str(<<"1", "2", "a", "4">>),
   Str(<<"a", "b", "c">>), Str(<<"u", "s", "e", "r", "s">>), Num(12345)}

ReportFindings ==
  {[match |-> m, context |-> <<"x">>] : m \in ReportMatches}
  \cup {[match |-> Str(<<"1", "2", "a", "4">>), context |-> <<"y">>]}

\* the stoplist of line 30
Stoplist ==
  {<<"u", "s", "e", "r">>, <<"t", "y", "p", "e">>, <<"i", "d">>,
   <<"c", "o", "n", "t", "e", "x", "t">>, <<"s", "e", "t">>, <<"v", "a", "l", "u", "e">>}

LowerOf == ("U" :> "u") @@ ("S" :> "s") @@ ("E" :> "e") @@ ("R" :> "r")

\* a comparison that keeps the case
KeepCase(str) == str

\* String.prototype.toLowerCase
toLowerCase(str) ==
  [i \in 1..Len(str) |-> IF str[i] \in DOMAIN LowerOf THEN LowerOf[str[i]] ELSE str[i]]

Digits == {"0", "1", "2", "3", "4", "5", "6", "7", "8", "9"}

\* /^\d+$/.test(m)
AllDigits(str) == Len(str) >= 1 /\ \A i \in 1..Len(str) : str[i] \in Digits

\* the condition of lines 27-32
isSignal(m) ==
  /\ m.type = "string"
  /\ Len(m.value) > 3
  /\ toLowerCase(m.value) \notin Stoplist
  /\ ~AllDigits(m.value)

RECURSIVE signalsOfFindings(_, _)
\* lines 22-40, from the i-th finding of an entry on
signalsOfFindings(entry, i) ==
  IF i > Len(entry.findings) THEN <<>>
  ELSE (IF isSignal(entry.findings[i].match)
        THEN <<[file |-> entry.file, regex |-> entry.regex,
                match |-> entry.findings[i].match,
                context |-> entry.findings[i].context]>>
        ELSE <<>>) \o signalsOfFindings(entry, i + 1)

RECURSIVE signalsOfEntries(_, _)
\* lines 19-41, from the k-th entry of the report on
signalsOfEntries(report, k) ==
  IF k > Len(report) THEN <<>>
  ELSE signalsOfFindings(report[k], 1) \o signalsOfEntries(report, k + 1)

\* new Date(): the clock, in whole milliseconds
DateNow(t) == t \div TicksPerMs

\* toISOString().replace(/[:.]/g, '-'): seconds and milliseconds of the date
timestamp(ms) == <<ms \div 1000, ms % 1000>>

\* line 46
outFile(ms) == <<"goods_signals_", timestamp(ms), ".json">>

HasFindings(entry) == entry.findings # <<>>

InitTriage ==
  /\ \E n \in 0..MaxMatches : \E fl \in [1..n -> ReportFindings] : \E k \in 0..n :
       data = SelectSeq(<<[file |-> 1, regex |-> 1, findings |-> SubSeq(fl, 1, k)],
                          [file |-> 2, regex |-> 2, findings |-> SubSeq(fl, k + 1, n)]>>,
                        HasFindings)
  /\ clock = 0
  /\ signalFiles = <<>>
  /\ outFiles = <<>>
  /\ ScanIdle
  /\ WriteIdle
  /\ ReqIdle
  /\ PoolIdle

\* one call of extractSignal (lines 11-51); the call takes time
ExtractSignal ==
  /\ UNCHANGED notTriage
  /\ Len(outFiles) < MaxTriageRuns
  /\ clock < MaxTicks
  /\ LET signals == signalsOfEntries(data, 1)
         out == outFile(DateNow(clock))
     IN /\ signalFiles' = [f \in DOMAIN signalFiles \cup {out} |->
                             IF f = out THEN signals ELSE signalFiles[f]]
        /\ outFiles' = Append(outFiles, out)
  /\ clock' = clock + 1
  /\ UNCHANGED data

\* time passes between two calls
Tick ==
  /\ UNCHANGED notTriage
  /\ clock < MaxTicks
  /\ clock' = clock + 1
  /\ UNCHANGED <<data, signalFiles, outFiles>>

NextTriage == ExtractSignal \/ Tick

SpecTriage == InitTriage /\ [][NextTriage]_vars

(***************************************************************************)
(* Claims about the Signal Triage Filter                                   *)
(***************************************************************************)
RECURSIVE FlatFrom(_, _)
\* every match of the report from entry k on, in report order
FlatFrom(report, k) ==
  IF k > Len(report) THEN <<>>
  ELSE [i \in 1..Len(report[k].findings) |->
          [file |-> report[k].file, regex |-> report[k].regex,
           match |-> report[k].findings[i].match,
           context |-> report[k].findings[i].context]]
       \o FlatFrom(report, k + 1)

Numeric(str) == str # <<>> /\ {str[i] : i \in 1..Len(str)} \subseteq Digits

EqualIgnoringCase(a, b) ==
  /\ Len(a) = Len(b)
  /\ \A i \in 1..Len(a) :
       \/ a[i] = b[i]
       \/ \E u \in DOMAIN LowerOf : {a[i], b[i]} = {u, LowerOf[u]}

Relevant(c) ==
  /\ c.match.type = "string"
  /\ Len(c.match.value) >= 4
  /\ ~\E w \in Stoplist : EqualIgnoringCase(c.match.value, w)
  /\ ~Numeric(c.match.value)

\* C5: the report a call writes is the sequence of the matches of the machine
\* report, in report order and with their file, detector, match and context,
\* whose match is a string longer than 3 characters, no stoplist word in any
\* case and not all digits; no signal is numeric or shorter than 4 characters.
C5_SignalsAreRelevantMatches ==
  \A f \in DOMAIN signalFiles :
    /\ signalFiles[f] = SelectSeq(FlatFrom(data, 1), Relevant)
    /\ \A i \in 1..Len(signalFiles[f]) :
         /\ Len(signalFiles[f][i].match.value) >= 4
         /\ ~Numeric(signalFiles[f][i].match.value)

\* a report was triaged that held a signal, a stoplist word in another case,
\* a number and a short match
C5_Witness ==
  /\ outFiles # <<>>
  /\ signalFiles[outFiles[1]] # <<>>
  /\ Len(data) = 2
  /\ \E k \in 1..Len(data) : \E i \in 1..Len(data[k].findings) :
       data[k].findings[i].match = Str(<<"U", "s", "e", "r">>)
  /\ \E k \in 1..Len(data) : \E i \in 1..Len(data[k].findings) :
       data[k].findings[i].match = Str(<<"1", "2", "3", "4">>)

\* C6: any two triage runs over the same machine report write to two distinct
\* output files, so that each run's file is on disk afterwards.
C6_RunsWriteDistinctFiles ==
  /\ \A i, j \in 1..Len(outFiles) : i < j => outFiles[i] # outFiles[j]
  /\ Cardinality(DOMAIN signalFiles) = Len(outFiles)

(***************************************************************************)
(* fs.writeFileSync(path, content): the file is opened for writing, which  *)
(* creates or truncates it, the content is written piece by piece, and the *)
(* file is closed.  An error (no space, I/O) or the end of the process     *)
(* stops the write where it is.                                            *)
(***************************************************************************)
MaxChunks == 3     \* pieces the content is written in

Artifacts == {"js_request_surface.json", "goods_machine.json", "goods_human.txt",
              "goods_signals.json"}

NoFile == <<"ENOENT">>

InitWrite ==
  /\ artifact \in Artifacts
  /\ \E n \in 1..MaxChunks : newContent = [i \in 1..n |-> <<"new", i>>]
  /\ \E n \in 1..MaxChunks :
       oldContent \in {NoFile, [i \in 1..n |-> <<"old", i>>]}
  /\ onDisk = oldContent
  /\ wpc = "call"
  /\ ScanIdle
  /\ TriageIdle
  /\ ReqIdle
  /\ PoolIdle

\* fs.openSync(path, 'w') fails: nothing is touched
OpenFails ==
  /\ UNCHANGED notWrite
  /\ wpc = "call"
  /\ wpc' = "failed"
  /\ UNCHANGED <<artifact, newContent, oldContent, onDisk>>

\* fs.openSync(path, 'w'): the file is created or truncated
Open ==
  /\ UNCHANGED notWrite
  /\ wpc = "call"
  /\ onDisk' = <<>>
  /\ wpc' = "writing"
  /\ UNCHANGED <<artifact, newContent, oldContent>>

\* fs.writeSync: some more of the content reaches the file
WriteSome ==
  /\ UNCHANGED notWrite
  /\ wpc = "writing"
  /\ Len(onDisk) < Len(newContent)
  /\ \E n \in (Len(onDisk) + 1)..Len(newContent) : onDisk' = SubSeq(newContent, 1, n)
  /\ UNCHANGED <<artifact, newContent, oldContent, wpc>>

\* the write throws, or the process ends, before the content is complete
WriteInterrupted ==
  /\ UNCHANGED notWrite
  /\ wpc = "writing"
  /\ Len(onDisk) < Len(newContent)
  /\ wpc' = "failed"
  /\ UNCHANGED <<artifact, newContent, oldContent, onDisk>>

\* fs.closeSync: writeFileSync returns
Close ==
  /\ UNCHANGED notWrite
  /\ wpc = "writing"
  /\ onDisk = newContent
  /\ wpc' = "written"
  /\ UNCHANGED <<artifact, newContent, oldContent, onDisk>>

NextWrite == OpenFails \/ Open \/ WriteSome \/ WriteInterrupted \/ Close

SpecWrite == InitWrite /\ [][NextWrite]_vars

\* C7: if the write of an artifact fails or is interrupted, the artifact's
\* path holds its complete previous content (or no file) or the complete new
\* content, never a part of it.
C7_FailedWriteLeavesOldOrNew ==
  wpc = "failed" => (onDisk = oldContent \/ onDisk = newContent)

(***************************************************************************)
(* extractRequests.  The syntax tree of a file is the sequence of the      *)
(* nodes acorn-walk hands to the visitors, in the order of the walk; a     *)
(* string value is Str of a TLA+ string here.                              *)
(***************************************************************************)
MaxNodes == 3      \* nodes visited in one run

Null == [type |-> "null"]
Undefined == [type |-> "undefined"]

Identifier(n) == [type |-> "Identifier", name |-> n]
Literal(v) == [type |-> "Literal", value |-> v]
Property(k, v) == [type |-> "Property", key |-> k, value |-> v]
ComputedProperty(k, v) == [type |-> "Property", key |-> k, value |-> v, computed |-> TRUE]
SpreadElement(arg) == [type |-> "SpreadElement", argument |-> arg]
ObjectExpression(props) == [type |-> "ObjectExpression", properties |-> props]
NewExpression(c) == [type |-> "NewExpression", callee |-> c]
MemberExpression(o, p) == [type |-> "MemberExpression", object |-> o, property |-> p]
CallExpression(c, args) == [type |-> "CallExpression", callee |-> c, arguments |-> args]
VariableDeclarator(id, init) == [type |-> "VariableDeclarator", id |-> id, init |-> init]
AssignmentExpression(l, r) == [type |-> "AssignmentExpression", left |-> l, right |-> r]
TemplateLiteral(raws) == [type |-> "TemplateLiteral", quasis |-> raws]
\* a template with its embedded expressions: Len(raws) = Len(exprs) + 1
TemplateWith(raws, exprs) ==
  [type |-> "TemplateLiteral", quasis |-> raws, expressions |-> exprs]
BinaryExpression == [type |-> "BinaryExpression"]

\* node.name, "" standing for undefined
NameOf(n) == IF "name" \in DOMAIN n THEN n.name ELSE ""

\* the truthiness of a value
Truthy(v) ==
  CASE v.type = "string" -> Len(v.value) # 0
    [] v.type = "number" -> v.value # 0
    [] OTHER -> FALSE

EmptyScope == [n \in {} |-> Undefined]

\* scope[name]
Lookup(sc, name) == IF name \in DOMAIN sc THEN sc[name] ELSE Undefined

\* scope[name] = binding
Bind(sc, name, binding) ==
  [n \in DOMAIN sc \cup {name} |-> IF n = name THEN binding ELSE sc[n]]

\* an array of a finding: its own, or (ref > 0) the `appends` array heap[ref]
Own(keys) == [ref |-> 0, own |-> keys]
Shared(r) == [ref |-> r, own |-> <<>>]
ArrayValue(h, arr) == IF arr.ref = 0 THEN arr.own ELSE h[arr.ref]

RECURSIVE keysFrom(_, _)
keysFrom(props, i) ==
  IF i > Len(props) THEN <<>>
  ELSE LET p == props[i]
           named == "key" \in DOMAIN p /\
                    (NameOf(p.key) # "" \/
                     ("value" \in DOMAIN p.key /\ Truthy(p.key.value)
                      /\ p.key.value.type = "string"))
       IN (IF named
           THEN <<Str(IF NameOf(p.key) # "" THEN NameOf(p.key) ELSE p.key.value.value)>>
           ELSE <<>>) \o keysFrom(props, i + 1)

\* lines 58-67
extractObjectKeysFromNode(n) ==
  IF n.type # "ObjectExpression" THEN <<>> ELSE keysFrom(n.properties, 1)

\* lines 73-76
extractFormDataKeys(sc, variableName) ==
  IF Lookup(sc, variableName).type = "undefined"
     \/ "appends" \notin DOMAIN Lookup(sc, variableName)
  THEN Own(<<>>)
  ELSE Shared(Lookup(sc, variableName).appends)

\* lines 82-85
extractUrlSearchParamsKeys(sc, variableName) ==
  IF Lookup(sc, variableName).type = "undefined"
     \/ "appends" \notin DOMAIN Lookup(sc, variableName)
  THEN Own(<<>>)
  ELSE Shared(Lookup(sc, variableName).appends)

\* scope[name] = { type, appends: [] }
newAccumulator(st, name, type) ==
  [st EXCEPT !.heap = Append(st.heap, <<>>),
             !.scope = Bind(st.scope, name,
                            [type |-> type, appends |-> Len(st.heap) + 1])]

\* lines 120-136
onVariableDeclarator(st, n) ==
  IF n.init.type = "null" THEN st
  ELSE LET s1 == IF n.init.type = "ObjectExpression" /\ n.id.type = "Identifier"
                 THEN [st EXCEPT !.scope = Bind(st.scope, n.id.name, n.init)]
                 ELSE st
           s2 == IF n.init.type = "NewExpression" /\ NameOf(n.init.callee) = "FormData"
                    /\ n.id.type = "Identifier"
                 THEN newAccumulator(s1, n.id.name, "FormData")
                 ELSE s1
       IN IF n.init.type = "NewExpression" /\ NameOf(n.init.callee) = "URLSearchParams"
             /\ n.id.type = "Identifier"
          THEN newAccumulator(s2, n.id.name, "URLSearchParams")
          ELSE s2

\* lines 139-144
onAssignmentExpression(st, n) ==
  IF n.left.type = "Identifier" /\ n.right.type = "ObjectExpression"
  THEN [st EXCEPT !.scope = Bind(st.scope, n.left.name, n.right)]
  ELSE st

\* what an append call pushes when the type of its first argument is not looked at
pushedKeysAnyArgument(args) ==
  IF Len(args) > 0
  THEN <<IF "value" \in DOMAIN args[1] THEN args[1].value ELSE Undefined>>
  ELSE <<>>

\* lines 157-161: what an append call pushes
pushedKeys(args) ==
  IF Len(args) > 0 /\ args[1].type = "Literal" THEN <<args[1].value>> ELSE <<>>

\* lines 150-163
appendBlock(st, n) ==
  IF n.callee.type = "MemberExpression" /\ NameOf(n.callee.property) = "append"
     /\ n.callee.object.type = "Identifier"
  THEN LET b == Lookup(st.scope, n.callee.object.name)
       IN IF "appends" \in DOMAIN b
          THEN [st EXCEPT !.heap[b.appends] = @ \o pushedKeys(n.arguments)]
          ELSE st
  ELSE st

UpperOf == ("post" :> "POST") @@ ("put" :> "PUT") @@ ("patch" :> "PATCH")
           @@ ("delete" :> "DELETE") @@ ("get" :> "GET")

\* String.prototype.toUpperCase
toUpperCase(str) == IF str \in DOMAIN UpperOf THEN UpperOf[str] ELSE str

RECURSIVE joinPlain(_, _)
\* the chunks joined with nothing between them
joinPlain(quasis, i) ==
  IF i > Len(quasis) THEN <<>> ELSE quasis[i] \o joinPlain(quasis, i + 1)

RECURSIVE joinFrom(_, _)
\* quasis.map(q => q.value.raw).join('${}'), from the i-th quasi on; the raw
\* text of a quasi is a sequence of characters
joinFrom(quasis, i) ==
  IF i > Len(quasis) THEN <<>>
  ELSE IF i = Len(quasis) THEN quasis[i]
  ELSE quasis[i] \o <<"$", "{", "}">> \o joinFrom(quasis, i + 1)

\* lines 177-181 and 214-218
resolveEndpoint(args) ==
  IF Len(args) > 0
  THEN IF args[1].type = "Literal" THEN args[1].value
       ELSE IF args[1].type = "TemplateLiteral" THEN Str(joinFrom(args[1].quasis, 1))
       ELSE Null
  ELSE Null

\* a resolution that takes every accumulator for a form accumulator
resolveBodyAsForm(sc, body) ==
  IF body.type = "ObjectExpression"
  THEN [bodyParams |-> Own(extractObjectKeysFromNode(body)), bodyType |-> "json"]
  ELSE IF body.type = "Identifier" /\ Lookup(sc, body.name).type # "undefined"
  THEN LET b == Lookup(sc, body.name)
       IN IF b.type \in {"FormData", "URLSearchParams"}
          THEN [bodyParams |-> extractFormDataKeys(sc, body.name),
                bodyType |-> "form-data"]
          ELSE IF b.type = "ObjectExpression"
          THEN [bodyParams |-> Own(extractObjectKeysFromNode(b)), bodyType |-> "json"]
          ELSE [bodyParams |-> Own(<<>>), bodyType |-> "unknown"]
  ELSE [bodyParams |-> Own(<<>>), bodyType |-> "unknown"]

\* lines 187-201 and 231-245
resolveBody(sc, body) ==
  IF body.type = "ObjectExpression"
  THEN [bodyParams |-> Own(extractObjectKeysFromNode(body)), bodyType |-> "json"]
  ELSE IF body.type = "Identifier" /\ Lookup(sc, body.name).type # "undefined"
  THEN LET b == Lookup(sc, body.name)
       IN IF b.type = "FormData"
          THEN [bodyParams |-> extractFormDataKeys(sc, body.name),
                bodyType |-> "form-data"]
          ELSE IF b.type = "URLSearchParams"
          THEN [bodyParams |-> extractUrlSearchParamsKeys(sc, body.name),
                bodyType |-> "urlencoded"]
          ELSE IF b.type = "ObjectExpression"
          THEN [bodyParams |-> Own(extractObjectKeysFromNode(b)), bodyType |-> "json"]
          ELSE [bodyParams |-> Own(<<>>), bodyType |-> "unknown"]
  ELSE [bodyParams |-> Own(<<>>), bodyType |-> "unknown"]

Verbs == {"post", "put", "patch", "delete"}

\* lines 166-205
axiosBlock(st, n) ==
  IF n.callee.type = "MemberExpression" /\ NameOf(n.callee.object) = "axios"
     /\ NameOf(n.callee.property) \in Verbs
  THEN LET body == IF Len(n.arguments) > 1
                   THEN resolveBody(st.scope, n.arguments[2])
                   ELSE [bodyParams |-> Own(<<>>), bodyType |-> "unknown"]
       IN [st EXCEPT !.findings = Append(@,
             [file |-> st.file, method |-> toUpperCase(n.callee.property.name),
              endpoint |-> resolveEndpoint(n.arguments),
              bodyParams |-> body.bodyParams, bodyType |-> body.bodyType,
              confidence |-> "high"])]
  ELSE st

\* options.properties.find(p => p.key?.name === name), <<>> for undefined
findProperty(props, name) ==
  LET hits == {i \in 1..Len(props) :
                 "key" \in DOMAIN props[i] /\ NameOf(props[i].key) = name}
  IN IF hits = {} THEN <<>> ELSE <<props[Min(hits)]>>

\* lines 208-253
fetchBlock(st, n) ==
  IF n.callee.type = "Identifier" /\ n.callee.name = "fetch"
  THEN LET options == IF Len(n.arguments) > 1 /\ n.arguments[2].type = "ObjectExpression"
                      THEN n.arguments[2].properties ELSE <<>>
           methodProp == findProperty(options, "method")
           bodyProp == findProperty(options, "body")
           override == methodProp # <<>> /\ methodProp[1].value.type = "Literal"
           threw == override /\ methodProp[1].value.value.type # "string"
           method == IF override /\ ~threw
                     THEN toUpperCase(methodProp[1].value.value.value) ELSE "GET"
           body == IF bodyProp # <<>>
                   THEN resolveBody(st.scope, bodyProp[1].value)
                   ELSE [bodyParams |-> Own(<<>>), bodyType |-> "unknown"]
           endpoint == resolveEndpoint(n.arguments)
       IN IF threw THEN [st EXCEPT !.threw = TRUE]
          ELSE IF Truthy(endpoint) \/ Len(ArrayValue(st.heap, body.bodyParams)) > 0
          THEN [st EXCEPT !.findings = Append(@,
                  [file |-> st.file, method |-> method, endpoint |-> endpoint,
                   bodyParams |-> body.bodyParams, bodyType |-> body.bodyType,
                   confidence |-> "medium"])]
          ELSE st
  ELSE st

\* lines 147-254
onCallExpression(st, n) == fetchBlock(axiosBlock(appendBlock(st, n), n), n)

\* the visitor of a node
visitor(st, n) ==
  CASE n.type = "VariableDeclarator" -> onVariableDeclarator(st, n)
    [] n.type = "AssignmentExpression" -> onAssignmentExpression(st, n)
    [] n.type = "CallExpression" -> onCallExpression(st, n)
    [] OTHER -> st

\* JSON.stringify(findings): every array is written with what it holds now
stringify(fs, h) ==
  [i \in 1..Len(fs) |->
     [file |-> fs[i].file, method |-> fs[i].method, endpoint |-> fs[i].endpoint,
      bodyParams |-> ArrayValue(h, fs[i].bodyParams), bodyType |-> fs[i].bodyType,
      confidence |-> fs[i].confidence]]

(***************************************************************************)
(* The nodes of the files the model walks                                  *)
(***************************************************************************)
Prop(name) == Property(Identifier(name), Literal(Num(1)))
ObjAB == ObjectExpression(<<Prop("a"), Prop("b")>>)
ObjC == ObjectExpression(<<Prop("c")>>)

Declarations ==
  {VariableDeclarator(Identifier("x"), ObjAB),
   VariableDeclarator(Identifier("x"), NewExpression(Identifier("FormData"))),
   VariableDeclarator(Identifier("x"), NewExpression(Identifier("URLSearchParams"))),
   VariableDeclarator(Identifier("y"), NewExpression(Identifier("FormData"))),
   VariableDeclarator(Identifier("x"), Null),
   AssignmentExpression(Identifier("x"), ObjC)}

appendCall(name, args) ==
  CallExpression(MemberExpression(Identifier(name), Identifier("append")), args)

Appends ==
  {appendCall("x", <<Literal(Str("k")), Identifier("v")>>),
   appendCall("x", <<Literal(Str("j")), Identifier("v")>>),
   appendCall("x", <<Identifier("v"), Literal(Str("k"))>>),
   appendCall("x", <<>>),
   appendCall("y", <<Literal(Str("k")), Identifier("v")>>),
   appendCall("z", <<Literal(Str("k")), Identifier("v")>>)}

Bodies == {ObjC, Identifier("x"), Identifier("y"), BinaryExpression}

axiosCall(verb, args) ==
  CallExpression(MemberExpression(Identifier("axios"), Identifier(verb)), args)

fetchCall(args) == CallExpression(Identifier("fetch"), args)

HttpCalls ==
  {axiosCall("post", <<Literal(Str("/x")), b>>) : b \in Bodies}
  \cup {axiosCall("post", <<Literal(Str("/x"))>>)}
  \cup {fetchCall(<<Literal(Str("/x")),
                    ObjectExpression(<<Property(Identifier("method"), Literal(Str("post"))),
                                       Property(Identifier("body"), b)>>)>>) : b \in Bodies}
  \cup {fetchCall(<<Literal(Str("/x"))>>),
        fetchCall(<<Identifier("url"),
                    ObjectExpression(<<Property(Identifier("body"), Identifier("x"))>>)>>)}

BodyNodes == Declarations \cup Appends \cup HttpCalls

(***************************************************************************)
(* extractRequests, lines 92-266                                           *)
(***************************************************************************)
InitReq ==
  /\ parses \in [FileNames -> BOOLEAN]
  /\ rpc = "file"
  /\ rFile = 1
  /\ scope = EmptyScope
  /\ heap = <<>>
  /\ reqFindings = <<>>
  /\ node = Null
  /\ visited = 0
  /\ surface = <<>>
  /\ walked = <<>>
  /\ ScanIdle
  /\ TriageIdle
  /\ WriteIdle
  /\ PoolIdle

\* the scope map of a file, were the map created once, before the loop
keptScope(prev) == prev

\* line 116: const scope = {}
freshScope(prev) == EmptyScope

\* what the loop does with a file acorn cannot parse, were the error not caught
afterParseErrorThrow == "aborted"

\* lines 112-114: catch { continue }
afterParseError == "file"

\* lines 103-116: the next file is read and parsed
ParseFile ==
  /\ UNCHANGED notReq
  /\ rpc = "file"
  /\ IF rFile > Cardinality(FileNames)
     THEN /\ rpc' = "write"
          /\ UNCHANGED <<rFile, scope>>
     ELSE IF parses[rFile]
     THEN /\ scope' = freshScope(scope)
          /\ rpc' = "walk"
          /\ UNCHANGED rFile
     ELSE /\ rpc' = afterParseError
          /\ rFile' = rFile + 1
          /\ UNCHANGED scope
  /\ walked' = <<>>
  /\ UNCHANGED <<parses, heap, reqFindings, node, visited, surface>>

\* the walk reaches node n: its visitor runs (lines 118-255)
Visit(n) ==
  /\ rpc = "walk"
  /\ visited < MaxNodes
  /\ LET st == visitor([scope |-> scope, heap |-> heap, findings |-> reqFindings,
                        file |-> rFile, threw |-> FALSE], n)
     IN /\ scope' = st.scope
        /\ heap' = st.heap
        /\ reqFindings' = st.findings
        /\ rpc' = IF st.threw THEN "aborted" ELSE "walk"
  /\ node' = n
  /\ visited' = visited + 1
  /\ UNCHANGED <<parses, rFile, surface>>

WalkNode ==
  /\ UNCHANGED notReq
  /\ UNCHANGED walked
  /\ \E n \in BodyNodes : Visit(n)

\* the walk of the file returns
EndWalk ==
  /\ UNCHANGED notReq
  /\ rpc = "walk"
  /\ rpc' = "file"
  /\ rFile' = rFile + 1
  /\ UNCHANGED <<parses, scope, heap, reqFindings, node, visited, surface, walked>>

\* lines 259-265
WriteSurface ==
  /\ UNCHANGED notReq
  /\ rpc = "write"
  /\ surface' = stringify(reqFindings, heap)
  /\ rpc' = "done"
  /\ UNCHANGED <<parses, rFile, scope, heap, reqFindings, node, visited, walked>>

NextReq == ParseFile \/ WalkNode \/ EndWalk \/ WriteSurface

SpecReq == InitReq /\ [][NextReq]_vars

(***************************************************************************)
(* Claims about the request-surface pass                                   *)
(***************************************************************************)
\* C8: a file that does not parse contributes no finding and does not end the
\* run: the loop goes on to the next file with everything else as it was, and
\* the walk of every file that parses starts from an empty scope, so that the
\* other files are processed as if the unparseable file were not there.
C8_ParseFailureSkipsFile ==
  /\ [](\A i \in 1..Len(reqFindings) : parses[reqFindings[i].file])
  /\ [][(rpc = "file" /\ rFile \in FileNames /\ ~parses[rFile]) =>
          /\ rpc' = "file" /\ rFile' = rFile + 1
          /\ UNCHANGED <<scope, heap, reqFindings, surface>>]_vars
  /\ [][(rpc = "file" /\ rpc' = "walk") =>
          (scope' = EmptyScope /\ UNCHANGED <<rFile, heap, reqFindings>>)]_vars

\* the report was written with a finding of the second file, after the first
\* file failed to parse
C8_Witness ==
  /\ rpc = "done"
  /\ ~parses[1]
  /\ \E i \in 1..Len(surface) : surface[i].file = 2

IsClientCall(n) ==
  /\ n.type = "CallExpression" /\ n.callee.type = "MemberExpression"
  /\ NameOf(n.callee.object) = "axios" /\ NameOf(n.callee.property) \in Verbs

IsFetchCall(n) ==
  n.type = "CallExpression" /\ n.callee.type = "Identifier" /\ n.callee.name = "fetch"

\* the body of a recognized call: the second argument of a client call, the
\* body field of the options of a fetch call; Undefined when there is none
BodyOf(n) ==
  IF IsClientCall(n)
  THEN IF Len(n.arguments) >= 2 THEN n.arguments[2] ELSE Undefined
  ELSE IF Len(n.arguments) >= 2 /\ n.arguments[2].type = "ObjectExpression"
  THEN LET ps == n.arguments[2].properties
           at == {i \in 1..Len(ps) : "key" \in DOMAIN ps[i] /\ NameOf(ps[i].key) = "body"}
       IN IF at = {} THEN Undefined ELSE ps[Min(at)].value
  ELSE Undefined

IsAccumulator(b) == b.type \in {"FormData", "URLSearchParams"}

\* the encoding and the keys the claim gives a body, in scope sc
ClaimedBody(sc, h, body) ==
  LET b == IF body.type = "Identifier" THEN Lookup(sc, body.name) ELSE Undefined
  IN CASE body.type = "ObjectExpression" -> <<"json", extractObjectKeysFromNode(body)>>
       [] b.type = "ObjectExpression" -> <<"json", extractObjectKeysFromNode(b)>>
       [] b.type = "FormData" -> <<"form-data", h[b.appends]>>
       [] b.type = "URLSearchParams" -> <<"urlencoded", h[b.appends]>>
       [] OTHER -> <<"unknown", <<>>>>

IsAppendCall(n) ==
  /\ n.type = "CallExpression" /\ n.callee.type = "MemberExpression"
  /\ NameOf(n.callee.property) = "append" /\ n.callee.object.type = "Identifier"

\* the literal first argument of an append call on identifier id, if node n is one
LiteralKey(n, id) ==
  IF IsAppendCall(n) /\ n.callee.object.name = id /\ n.arguments # <<>>
     /\ n.arguments[1].type = "Literal"
  THEN <<n.arguments[1].value>> ELSE <<>>

\* C10: the key list of an accumulator binding is empty when the binding is
\* made, and the visit of a node leaves it as it was, but for an append call
\* on its identifier with a literal first argument, which adds that literal
\* at the end; an append call changes no binding.
C10_AppendsAreTheLiteralKeys ==
  [][(visited' = visited + 1) =>
       /\ \A id \in DOMAIN scope' :
            IsAccumulator(scope'[id]) =>
              heap'[scope'[id].appends] =
                IF id \in DOMAIN scope /\ scope[id] = scope'[id]
                THEN heap[scope[id].appends] \o LiteralKey(node', id)
                ELSE <<>>
       /\ IsAppendCall(node') => scope' = scope]_vars

\* two literal keys were appended, in this order, to a bound accumulator
C10_Witness ==
  /\ rpc = "walk"
  /\ "x" \in DOMAIN scope
  /\ IsAccumulator(scope["x"])
  /\ heap[scope["x"].appends] = <<Str("k"), Str("j")>>

(***************************************************************************)
(* The walk of a tree.  walk.ancestor (line 118) runs acorn-walk's base    *)
(* visitor of a node, which descends into the node's children, and only    *)
(* then the visitor given for the node's type: the visitors run in         *)
(* post-order.                                                             *)
(***************************************************************************)
MaxCalls == 2      \* statements walked in a run of the call-site specification

\* the children the base visitor of a node descends into, in its order
children(n) ==
  CASE n.type = "CallExpression" -> <<n.callee>> \o n.arguments
    [] n.type = "NewExpression" -> <<n.callee>>
    [] n.type = "MemberExpression" -> <<n.object>>
    [] n.type = "ObjectExpression" -> n.properties
    [] n.type = "Property" ->
         IF "computed" \in DOMAIN n THEN <<n.key, n.value>> ELSE <<n.value>>
    [] n.type = "SpreadElement" -> <<n.argument>>
    [] n.type = "VariableDeclarator" -> IF n.init.type = "null" THEN <<>> ELSE <<n.init>>
    [] n.type = "AssignmentExpression" -> <<n.left, n.right>>
    [] n.type = "TemplateLiteral" ->
         IF "expressions" \in DOMAIN n THEN n.expressions ELSE <<>>
    [] OTHER -> <<>>

RECURSIVE walkOrder(_)
RECURSIVE walkAll(_, _)
\* the nodes of the trees ns[i..], in the order their visitors run
walkAll(ns, i) ==
  IF i > Len(ns) THEN <<>> ELSE walkOrder(ns[i]) \o walkAll(ns, i + 1)

\* the nodes of the tree n, were the visitor of a node run before the base
\* visitor descends into its children
walkPre(n) == <<n>> \o walkAll(children(n), 1)

\* the nodes of the tree n, in the order their visitors run
walkOrder(n) == walkAll(children(n), 1) \o <<n>>

RECURSIVE visitAll(_, _, _)
\* the visitors of ns[i..] run in turn; an exception ends the walk
visitAll(st, ns, i) ==
  IF i > Len(ns) \/ st.threw THEN st ELSE visitAll(visitor(st, ns[i]), ns, i + 1)

\* the walk reaches the statement t and goes through its tree (lines 118-255)
VisitTree(t, max) ==
  /\ rpc = "walk"
  /\ visited < max
  /\ LET st == visitAll([scope |-> scope, heap |-> heap, findings |-> reqFindings,
                         file |-> rFile, threw |-> FALSE], walkOrder(t), 1)
     IN /\ scope' = st.scope
        /\ heap' = st.heap
        /\ reqFindings' = st.findings
        /\ rpc' = IF st.threw THEN "aborted" ELSE "walk"
  /\ node' = t
  /\ visited' = visited + 1
  /\ walked' = Append(walked, t)
  /\ UNCHANGED <<parses, rFile, surface>>

(***************************************************************************)
(* Call sites: the first arguments, options and bodies the model gives to  *)
(* the recognized calls.  The raw text of a template chunk is a sequence   *)
(* of characters, the escape sequence \$ being one element of it.          *)
(***************************************************************************)
Marker == <<"$", "{", "}">>

UrlX == Literal(Str(<<"/", "x">>))
UrlEmpty == Literal(Str(<<>>))
UrlNumber == Literal(Num(5))
UrlName == Identifier("url")

Templates ==
  {TemplateWith(<<<<"/", "u", "/">>, <<>>>>, <<Identifier("id")>>),
   TemplateWith(<<<<"/", "$">>, <<"{", "/">>, <<"}">>>>, <<Identifier("a"), Identifier("b")>>),
   TemplateWith(<<<<"/", "\\$", "{", "}">>, <<>>>>, <<Identifier("id")>>),
   TemplateWith(<<<<>>, <<>>>>, <<Identifier("id")>>),
   TemplateWith(<<<<"/", "u">>>>, <<>>),
   TemplateWith(<<<<>>>>, <<>>)}

Method(v) == Property(Identifier("method"), v)
Body(v) == Property(Identifier("body"), v)

FetchCalls ==
  {fetchCall(<<u>>) : u \in {UrlX, UrlEmpty, UrlNumber, UrlName} \cup Templates}
  \cup {fetchCall(<<>>)}
  \cup {fetchCall(<<UrlX, ObjectExpression(<<Method(Literal(Str("post")))>>)>>),
        fetchCall(<<UrlX, ObjectExpression(<<Method(Identifier("m"))>>)>>),
        fetchCall(<<UrlX, ObjectExpression(
                      <<Property(Literal(Str("method")), Literal(Str("post")))>>)>>),
        fetchCall(<<UrlName, ObjectExpression(<<Method(Literal(Str("put")))>>)>>),
        fetchCall(<<UrlEmpty, ObjectExpression(<<Method(Literal(Str("post"))),
                                                Body(BinaryExpression)>>)>>),
        fetchCall(<<UrlName, ObjectExpression(<<Body(ObjC)>>)>>),
        fetchCall(<<UrlName, ObjectExpression(<<Method(Literal(Str("patch"))),
                                               Body(Identifier("x"))>>)>>)}

ClientCalls ==
  {axiosCall("post", <<UrlX>>), axiosCall("put", <<UrlName>>), axiosCall("delete", <<>>),
   axiosCall("patch", <<UrlEmpty, Identifier("x")>>), axiosCall("get", <<UrlX>>)}
  \cup {axiosCall("post", <<t, ObjC>>) : t \in Templates}

CallNodes ==
  FetchCalls \cup ClientCalls \cup {VariableDeclarator(Identifier("x"), ObjAB)}

WalkCall ==
  /\ UNCHANGED notReq
  /\ \E t \in CallNodes : VisitTree(t, MaxCalls)

NextCall == ParseFile \/ WalkCall \/ EndWalk \/ WriteSurface

SpecCall == InitReq /\ [][NextCall]_vars

\* the first argument of a call resolves to an endpoint: it is a literal
\* string or a template
EndpointResolved(n) ==
  /\ n.arguments # <<>>
  /\ \/ n.arguments[1].type = "Literal" /\ n.arguments[1].value.type = "string"
     \/ n.arguments[1].type = "TemplateLiteral"

\* the findings the visit of a statement has added
Added == SubSeq(reqFindings', Len(reqFindings) + 1, Len(reqFindings'))

\* C11: the visit of a fetch-style call adds one finding if its endpoint was
\* resolved (a literal string or a template first argument) or its body gave
\* at least one parameter name, and none otherwise; the visit of a client
\* write-verb call adds exactly one finding in every case.
C11_FetchFindingIffResolved ==
  [][(rpc = "walk" /\ visited' = visited + 1) =>
       /\ IsFetchCall(node') =>
            Len(Added) = IF EndpointResolved(node')
                            \/ ClaimedBody(scope, heap, BodyOf(node'))[2] # <<>>
                         THEN 1 ELSE 0
       /\ IsClientCall(node') => Len(Added) = 1]_vars

\* the method the options of a fetch-style call supply: the string literal
\* value of the property named method, <<>> when there is none
SuppliedMethod(n) ==
  IF Len(n.arguments) >= 2 /\ n.arguments[2].type = "ObjectExpression"
  THEN LET ps == n.arguments[2].properties
           named(p) == /\ "key" \in DOMAIN p
                       /\ \/ NameOf(p.key) = "method"
                          \/ p.key.type = "Literal" /\ p.key.value = Str("method")
           at == {i \in 1..Len(ps) : named(ps[i])}
       IN IF at # {} /\ ps[Min(at)].value.type = "Literal"
             /\ ps[Min(at)].value.value.type = "string"
          THEN <<ps[Min(at)].value.value.value>> ELSE <<>>
  ELSE <<>>

\* C12: the method of the finding of a client write-verb call is the verb in
\* upper case; the method of the finding of a fetch-style call is GET, unless
\* the options argument supplies a method, and then it is that method in
\* upper case.
C12_MethodOfFinding ==
  [][(rpc = "walk" /\ visited' = visited + 1 /\ Added # <<>>) =>
       /\ IsClientCall(node') =>
            Last(Added).method = UpperOf[node'.callee.property.name]
       /\ IsFetchCall(node') =>
            Last(Added).method = IF SuppliedMethod(node') = <<>> THEN "GET"
                                 ELSE UpperOf[SuppliedMethod(node')[1]]]_vars

RECURSIVE lengthFrom(_, _)
\* the length of the chunks qs[1..k] with a marker after each
lengthFrom(qs, k) ==
  IF k = 0 THEN 0 ELSE lengthFrom(qs, k - 1) + Len(qs[k]) + Len(Marker)

\* where the markers of a string are
MarkersOf(str) ==
  {i \in 1..(Len(str) - Len(Marker) + 1) : SubSeq(str, i, i + Len(Marker) - 1) = Marker}

IsTemplateCall(n) ==
  /\ IsClientCall(n) \/ IsFetchCall(n)
  /\ n.arguments # <<>>
  /\ n.arguments[1].type = "TemplateLiteral"

\* C13: the endpoint of the finding that a recognized call whose first argument
\* is a template with n embedded expressions yields is a string made of the chunks of
\* literal text of the template, in order, with one placeholder marker
\* between two consecutive chunks: it has exactly n markers, the k-th where
\* the k-th expression stood, and nothing of the expressions.
C13_TemplateSkeleton ==
  [][(rpc = "walk" /\ visited' = visited + 1 /\ IsTemplateCall(node')
      /\ Added # <<>>) =>
       /\ Len(Added) = 1
       /\ LET t == node'.arguments[1]
              n == Len(t.expressions)
              e == Last(Added).endpoint
          IN /\ e.type = "string"
             /\ Len(e.value) = lengthFrom(t.quasis, n) + Len(t.quasis[n + 1])
             /\ Cardinality(MarkersOf(e.value)) = n
             /\ MarkersOf(e.value) =
                  {lengthFrom(t.quasis, k) - Len(Marker) + 1 : k \in 1..n}
             /\ \A k \in 1..(n + 1) :
                  SubSeq(e.value, lengthFrom(t.quasis, k - 1) + 1,
                         lengthFrom(t.quasis, k - 1) + Len(t.quasis[k])) = t.quasis[k]]_vars

\* a call with a template of two expressions was found, its endpoint holding
\* two markers
C13_Witness ==
  /\ rpc = "walk"
  /\ IsTemplateCall(node)
  /\ Len(node.arguments[1].expressions) = 2
  /\ reqFindings # <<>>
  /\ Cardinality(MarkersOf(Last(reqFindings).endpoint.value)) = 2

\* C14: the parameter names of a finding are those it had when it was
\* emitted: no later step of the run (an append call, a rebinding, another
\* finding, the writing of the report) changes the names of a finding that is
\* already in the list, and the report holds these names.
C14_NamesFixedAtEmission ==
  [][/\ Len(reqFindings') >= Len(reqFindings)
     /\ \A i \in 1..Len(reqFindings) :
          ArrayValue(heap', reqFindings'[i].bodyParams)
            = ArrayValue(heap, reqFindings[i].bodyParams)
     /\ (rpc = "write" /\ rpc' = "done") =>
          \A i \in 1..Len(reqFindings) :
            surface'[i].bodyParams = ArrayValue(heap, reqFindings[i].bodyParams)]_vars

(***************************************************************************)
(* Bindings: the declarations, assignments, append calls and object        *)
(* literals the model gives to the scope tracker.                          *)
(***************************************************************************)
\* { a: 1, [f]: 1, "s": 1, 1: 1, ...rest }
ObjMixed ==
  ObjectExpression(<<Prop("a"),
                     ComputedProperty(Identifier("f"), Literal(Num(1))),
                     Property(Literal(Str("s")), Literal(Num(1))),
                     Property(Literal(Num(1)), Literal(Num(1))),
                     SpreadElement(Identifier("rest"))>>)

Shapes ==
  {ObjAB, ObjC, NewExpression(Identifier("FormData")),
   NewExpression(Identifier("URLSearchParams"))}

BindNodes ==
  {VariableDeclarator(Identifier("x"), sh) : sh \in Shapes \ {ObjC}}
  \cup {AssignmentExpression(Identifier("x"), sh) : sh \in Shapes \ {ObjAB}}
  \cup {VariableDeclarator(Identifier("y"), ObjMixed),
        appendCall("x", <<Literal(Str("k")), Identifier("v")>>),
        appendCall("x", <<Literal(Num(1)), Identifier("v")>>),
        axiosCall("post", <<UrlX, Identifier("x")>>),
        axiosCall("put", <<UrlX, Identifier("y")>>),
        axiosCall("patch", <<UrlX, ObjMixed>>)}

WalkBind ==
  /\ UNCHANGED notReq
  /\ \E t \in BindNodes : VisitTree(t, MaxNodes)

NextBind == ParseFile \/ WalkBind \/ EndWalk \/ WriteSurface

SpecBind == InitReq /\ [][NextBind]_vars

\* node n declares or assigns the identifier id
Binds(n, id) ==
  \/ n.type = "VariableDeclarator" /\ n.id = Identifier(id) /\ n.init.type # "null"
  \/ n.type = "AssignmentExpression" /\ n.left = Identifier(id)

\* what node n binds its identifier to
BoundTo(n) == IF n.type = "VariableDeclarator" THEN n.init ELSE n.right

\* C15: after the declaration or assignment of an already-bound identifier to
\* an object literal or to a newly constructed form or URL accumulator, the
\* binding of the identifier is the new shape and nothing else: the object
\* literal, or an accumulator of the constructed kind with no key.
C15_RebindingLastWriteWins ==
  [][(rpc = "walk" /\ visited' = visited + 1) =>
       \A id \in DOMAIN scope :
         Binds(node', id) =>
           LET new == BoundTo(node')
           IN /\ new.type = "ObjectExpression" => scope'[id] = new
              /\ new.type = "NewExpression" =>
                   /\ scope'[id].type = NameOf(new.callee)
                   /\ IsAccumulator(scope'[id])
                   /\ heap'[scope'[id].appends] = <<>>]_vars

RECURSIVE StaticNames(_, _)
\* the names of the statically-named properties props[i..], in source order
StaticNames(props, i) ==
  IF i > Len(props) THEN <<>>
  ELSE LET p == props[i]
           static == p.type = "Property" /\ "computed" \notin DOMAIN p
       IN (IF static /\ p.key.type = "Identifier" THEN <<Str(p.key.name)>>
           ELSE IF static /\ p.key.type = "Literal" /\ p.key.value.type = "string"
           THEN <<p.key.value>>
           ELSE <<>>) \o StaticNames(props, i + 1)

\* the object literal a body stands for: itself, or the binding of the identifier
LiteralOf(sc, body) ==
  IF body.type = "ObjectExpression" THEN body
  ELSE IF body.type = "Identifier" THEN Lookup(sc, body.name)
  ELSE Undefined

\* C16: the parameter names a finding takes from an object literal (the body
\* itself, or the binding of the body identifier) are the names of its
\* statically-named properties, in source order: a property with a computed
\* key or with a literal key that is no string, and a spread element, give no
\* name.
C16_KeysOfObjectLiteral ==
  [][(rpc = "walk" /\ visited' = visited + 1 /\ IsClientCall(node')
      /\ LiteralOf(scope, BodyOf(node')).type = "ObjectExpression") =>
       /\ Len(Added) = 1
       /\ ArrayValue(heap', Last(Added).bodyParams)
            = StaticNames(LiteralOf(scope, BodyOf(node')).properties, 1)]_vars

WellFormed(f, h) ==
  /\ f.endpoint.type \in {"string", "null"}
  /\ \A i \in 1..Len(ArrayValue(h, f.bodyParams)) : ArrayValue(h, f.bodyParams)[i].type = "string"
  /\ f.bodyType \in {"json", "form-data", "urlencoded", "unknown"}
  /\ f.confidence \in {"high", "medium"}
  /\ f.bodyType = "unknown" => ArrayValue(h, f.bodyParams) = <<>>

\* C19: every finding is well-formed: its endpoint is a string or absent,
\* each of its parameter names is a string, its encoding is json, form-data,
\* urlencoded or unknown, with no parameter name when it is unknown, and its
\* confidence is high when a client-object call yielded it and medium when a
\* fetch-style call did.
C19_FindingsWellFormed ==
  /\ [](\A i \in 1..Len(reqFindings) : WellFormed(reqFindings[i], heap))
  /\ [](rpc = "done" =>
          \A i \in 1..Len(surface) : WellFormed([surface[i] EXCEPT !.bodyParams = Own(@)], heap))
  /\ [][(rpc = "walk" /\ visited' = visited + 1 /\ Added # <<>>) =>
          Last(Added).confidence = IF IsClientCall(node') THEN "high" ELSE "medium"]_vars

(***************************************************************************)
(* The scan of texts that hold the separator of the de-dupe key, with the  *)
(* detector /^a:|a/g in every module and the same text in every file.      *)
(***************************************************************************)
MaxKeyLen == 6     \* longest text

KeyAlphabet == {"a", ":", " "}
KeyTexts == UNION {[1..n -> KeyAlphabet] : n \in 0..MaxKeyLen}

InitKey ==
  /\ regexDir = [i \in DetectorNames |-> RegExpExport("head", TRUE, 0)]
  /\ \E t \in KeyTexts : jsFiles = [f \in FileNames |-> t]
  /\ regexes = <<>>
  /\ lastIndex = [i \in DetectorNames |-> 0]
  /\ spc = "start"
  /\ fileIdx = 1
  /\ reIdx = 1
  /\ findings = <<>>
  /\ machineResults = <<>>
  /\ humanLines = <<>>
  /\ rerun = FALSE
  /\ prevResults = <<>>
  /\ TriageIdle
  /\ WriteIdle
  /\ ReqIdle
  /\ PoolIdle

NextKey == StartRun \/ BeginPair \/ ExecMatch \/ ExecNull \/ WriteReports

SpecKey == InitKey /\ [][NextKey]_vars

\* C17: de-duplication keeps every distinct (matched text, context) of a
\* pair: each raw match of a recorded pair has an entry with its matched text
\* and its context in the record; and the records are per pair: when the run
\* is done every (file, detector) pair that had a match has its own record,
\* whatever the other pairs found.
C17_DistinctFindingsKept ==
  /\ FreshRecord =>
       \A i \in 1..Len(findings) :
         \E k \in 1..Len(Last(machineResults).findings) :
           SameFinding(Last(machineResults).findings[k], findings[i])
  /\ spc = "done" =>
       \A f \in FileNames : \A k \in 1..Len(regexes) :
         exec(regexes[k], jsFiles[f], 0).match # <<>> =>
           RecordedFor(machineResults, f, regexes[k].name) # <<>>

(***************************************************************************)
(* Nested call sites: statements whose recognized calls hold other         *)
(* recognized calls.  The endpoint of a call names its place in the source *)
(* text of the statement: /1 starts before /2, /2 before /3.               *)
(***************************************************************************)
Url1 == Literal(Str(<<"/", "1">>))
Url2 == Literal(Str(<<"/", "2">>))
Url3 == Literal(Str(<<"/", "3">>))

NestNodes ==
  {axiosCall("post", <<Url1>>),
   fetchCall(<<Url1>>),
   VariableDeclarator(Identifier("r"), fetchCall(<<Url1>>)),
   \* axios.post('/1', { t: fetch('/2') })
   axiosCall("post", <<Url1, ObjectExpression(
                               <<Property(Identifier("t"), fetchCall(<<Url2>>))>>)>>),
   \* fetch('/1', { body: x, h: axios.put('/2', fetch('/3')) })
   fetchCall(<<Url1, ObjectExpression(
                       <<Body(Identifier("x")),
                         Property(Identifier("h"),
                                  axiosCall("put", <<Url2, fetchCall(<<Url3>>)>>))>>)>>),
   \* all(fetch('/1'), axios.post('/2'))
   CallExpression(Identifier("all"), <<fetchCall(<<Url1>>), axiosCall("post", <<Url2>>)>>),
   \* fetch('/1').then(fetch('/2'))
   CallExpression(MemberExpression(fetchCall(<<Url1>>), Identifier("then")),
                  <<fetchCall(<<Url2>>)>>)}

WalkNest ==
  /\ UNCHANGED notReq
  /\ \E t \in NestNodes : VisitTree(t, MaxNodes)

NextNest == ParseFile \/ WalkNest \/ EndWalk \/ WriteSurface

SpecNest == InitReq /\ [][NextNest]_vars

IsSite(n) == IsClientCall(n) \/ IsFetchCall(n)

RECURSIVE SitesByStart(_)
RECURSIVE SitesByStartIn(_, _)
SitesByStartIn(ns, i) ==
  IF i > Len(ns) THEN <<>> ELSE SitesByStart(ns[i]) \o SitesByStartIn(ns, i + 1)

\* the endpoints of the recognized calls of a tree, in the order in which the
\* calls start in the source text
SitesByStart(n) ==
  (IF n.type = "CallExpression" /\ IsSite(n) THEN <<n.arguments[1].value>> ELSE <<>>)
  \o SitesByStartIn(children(n), 1)

RECURSIVE SitesByEnd(_)
RECURSIVE SitesByEndIn(_, _)
SitesByEndIn(ns, i) ==
  IF i > Len(ns) THEN <<>> ELSE SitesByEnd(ns[i]) \o SitesByEndIn(ns, i + 1)

\* the endpoints of the recognized calls of a tree, in the order in which the
\* calls end in the source text
SitesByEnd(n) ==
  SitesByEndIn(children(n), 1)
  \o (IF n.type = "CallExpression" /\ IsSite(n) THEN <<n.arguments[1].value>> ELSE <<>>)

EndpointsOf(fs) == [i \in 1..Len(fs) |-> fs[i].endpoint]

WalkAlone(ws, f) ==
  visitAll([scope |-> [n \in {} |-> Undefined], heap |-> <<>>, findings |-> <<>>,
            file |-> f, threw |-> FALSE], walkAll(ws, 1), 1)

\* a binding with the keys of its accumulator in place of the array
BindingValue(b, h) ==
  IF IsAccumulator(b) THEN [type |-> b.type, appends |-> h[b.appends]] ELSE b

IsOfThisFile(f) == f.file = rFile

\* C20: the scope map is fresh for each file: while a file is walked, its
\* bindings and its findings are those the walk of its own statements gives
\* when it starts from an empty scope map as the only file of the corpus, and
\* the findings of the other files stay as they are; so what a file
\* contributes does not depend on the other files or on their order.
C20_FilesAreIndependent ==
  /\ [](rpc = "walk" =>
          LET alone == WalkAlone(walked, rFile)
          IN /\ DOMAIN scope = DOMAIN alone.scope
             /\ \A id \in DOMAIN scope :
                  BindingValue(scope[id], heap) = BindingValue(alone.scope[id], alone.heap)
             /\ stringify(SelectSeq(reqFindings, IsOfThisFile), heap)
                  = stringify(alone.findings, alone.heap))
  /\ [][rpc = "walk" =>
          \A i \in 1..Len(reqFindings) :
            reqFindings[i].file # rFile =>
              /\ reqFindings'[i] = reqFindings[i]
              /\ ArrayValue(heap', reqFindings'[i].bodyParams)
                   = ArrayValue(heap, reqFindings[i].bodyParams)]_vars

\* the first file bound x to an object literal and sent it; the second file
\* sends an x it never bound, and its finding has no parameter name
C20_Witness ==
  /\ rpc = "walk"
  /\ rFile = 2
  /\ node = axiosCall("post", <<UrlX, Identifier("x")>>)
  /\ Len(reqFindings) = 2
  /\ reqFindings[1].file = 1 /\ reqFindings[1].method = "POST"
  /\ reqFindings[1].bodyType = "json"
  /\ reqFindings[2].file = 2 /\ reqFindings[2].bodyType = "unknown"

(***************************************************************************)
(* Files that parse and hold calls of unusual shapes                       *)
(***************************************************************************)
RunNodes ==
  {axiosCall("post", <<UrlX>>),
   fetchCall(<<UrlX, ObjectExpression(<<Method(Literal(Str("post")))>>)>>),
   \* fetch('/x', { method: 5 }) and fetch('/x', { method: null })
   fetchCall(<<UrlX, ObjectExpression(<<Method(Literal(Num(5)))>>)>>),
   fetchCall(<<UrlX, ObjectExpression(<<Method(Literal(Null))>>)>>),
   \* calls without arguments
   fetchCall(<<>>),
   axiosCall("delete", <<>>),
   appendCall("x", <<>>),
   \* computed callees: axios['post']('/x'), o[k]()
   CallExpression(MemberExpression(Identifier("axios"), Literal(Str("post"))), <<UrlX>>),
   CallExpression(MemberExpression(Identifier("o"), Identifier("k")), <<>>)}

WalkRun ==
  /\ UNCHANGED notReq
  /\ \E t \in RunNodes : VisitTree(t, MaxNodes)

NextRun == ParseFile \/ WalkRun \/ EndWalk \/ WriteSurface

SpecRun == InitReq /\ [][NextRun]_vars

\* C21: the walk of a file that parses never raises an error that ends the
\* run: whatever the files hold, extractRequests is never left by an
\* exception before it has written the report with the findings of all files.
C21_WalkNeverAbortsRun ==
  rpc # "aborted"

(***************************************************************************)
(* filterExistingJs: the pool of probing workers                           *)
(***************************************************************************)
\* The program runs 30 workers; the model runs a scaled number of them.
MAX_CONCURRENT == 2
MaxQueue == 3      \* longest queue

Urls == {"a.js", "b.js"}
Workers == 1..MAX_CONCURRENT
Queues == UNION {[1..n -> Urls] : n \in 0..MaxQueue}

\* How a probe can end: the response's status is 200, it is another status,
\* the request emits 'error', or https.request throws while the promise is
\* being built (the promise is then rejected).
Outcomes == {"200", "404", "error", "throw"}

\* What the promise of checkJsUrl resolves to.
checkJsUrl(outcome) == outcome = "200"

InitPool ==
  /\ jsUrls \in Queues
  /\ queue = jsUrls
  /\ results = <<>>
  /\ processed = 0
  /\ total = Len(jsUrls)
  /\ workers = [w \in Workers |-> [pc |-> "start", url |-> ""]]
  /\ probes = <<>>
  /\ outcomes = <<>>
  /\ fpc = "run"
  /\ ScanIdle
  /\ TriageIdle
  /\ WriteIdle
  /\ ReqIdle

\* a take that leaves the queue as it is
queueKept(q) == q
shift(q) == Tail(q)

\* Lines 85-88 up to the await: the worker tests the queue, takes its head and
\* starts the probe; no other task runs between the test and the take.
LoopHead(w) ==
  IF Len(queue) = 0
    THEN /\ workers' = [workers EXCEPT ![w] = [pc |-> "done", url |-> ""]]
         /\ UNCHANGED <<queue, probes>>
    ELSE LET url == Head(queue)
         IN /\ queue' = shift(queue)
            /\ IF url = ""
                 THEN /\ workers' = [workers EXCEPT ![w] = [pc |-> "done", url |-> ""]]
                      /\ UNCHANGED probes
                 ELSE /\ workers' = [workers EXCEPT ![w] = [pc |-> "await", url |-> url]]
                      /\ probes' = Append(probes, url)

\* Array(MAX_CONCURRENT).fill().map(async () => ...): each worker's function is
\* called in turn and runs up to its first await.
Begin(w) ==
  /\ fpc = "run"
  /\ workers[w].pc = "start"
  /\ \A v \in Workers : v < w => workers[v].pc # "start"
  /\ LoopHead(w)
  /\ UNCHANGED <<jsUrls, results, processed, total, outcomes, fpc>>
  /\ UNCHANGED notPool

\* The awaited probe of worker w has ended: lines 88-91, then the loop head.
Resume(w) ==
  /\ fpc \in {"run", "failed"}
  /\ workers[w].pc = "await"
  /\ \E o \in Outcomes :
       /\ outcomes' = Append(outcomes, [url |-> workers[w].url, outcome |-> o])
       /\ IF o = "throw"
            THEN /\ workers' = [workers EXCEPT ![w] = [pc |-> "rejected", url |-> ""]]
                 /\ UNCHANGED <<queue, probes, results, processed>>
            ELSE /\ results' = IF checkJsUrl(o) THEN Append(results, workers[w].url)
                                                ELSE results
                 /\ processed' = processed + 1
                 /\ LoopHead(w)
  /\ UNCHANGED <<jsUrls, total, fpc>>
  /\ UNCHANGED notPool

\* await Promise.all(workers) is fulfilled; results is returned.
Return ==
  /\ fpc = "run"
  /\ \A w \in Workers : workers[w].pc = "done"
  /\ fpc' = "returned"
  /\ UNCHANGED <<jsUrls, queue, results, processed, total, workers, probes, outcomes>>
  /\ UNCHANGED notPool

\* await Promise.all(workers) is rejected as soon as one worker is; the
\* other workers go on.
Fail ==
  /\ fpc = "run"
  /\ \E w \in Workers : workers[w].pc = "rejected"
  /\ fpc' = "failed"
  /\ UNCHANGED <<jsUrls, queue, results, processed, total, workers, probes, outcomes>>
  /\ UNCHANGED notPool

NextPool ==
  \/ \E w \in Workers : Begin(w)
  \/ \E w \in Workers : Resume(w)
  \/ Return
  \/ Fail

SpecPool == InitPool /\ [][NextPool]_vars

InFlight == {w \in Workers : workers[w].pc = "await"}
AllFinished == \A w \in Workers : workers[w].pc = "done"
Succeeded == SelectSeq(outcomes, LAMBDA r : r.outcome = "200")

RECURSIVE CountOf(_, _)
CountOf(u, seq) ==
  IF seq = <<>> THEN 0
  ELSE (IF Head(seq) = u THEN 1 ELSE 0) + CountOf(u, Tail(seq))

====
